---- MODULE Spec2Model ----
(***************************************************************************)
(* Model of transcribe.py: the length-prefixed PCM16 framing loop, the     *)
(* silence gate, the call of the speech engine and the output writer.      *)
(*                                                                         *)
(* Bytes are the integers 0..255.  A waveform sample is kept as the signed *)
(* 16-bit integer s that the code divides by 32767.0, so the float value   *)
(* of a sample is s/32767 and every comparison on amplitudes is done on    *)
(* the exact rationals.  MIN_AUDIO_LEVEL = 0.1 is the rational 1/10; no    *)
(* 16-bit sample lies within float32 rounding distance of the threshold    *)
(* (3276/32767 < 0.1 < 3277/32767), so the exact comparison decides every  *)
(* frame as the float32 comparison of the code does.                       *)
(***************************************************************************)
EXTENDS Integers, Sequences, FiniteSets, TLC

(***************************************************************************)
(* Bounds of the model.                                                    *)
(***************************************************************************)
\* the input stream is the concatenation of at most MaxPieces pieces
MaxPieces == 2

(***************************************************************************)
(* Program constants.                                                      *)
(***************************************************************************)
NL == 10
MIN_AUDIO_LEVEL_NUM == 1
MIN_AUDIO_LEVEL_DEN == 10
PCM_SCALE == 32767
INT16_WRAP == 65536

VARIABLES
    sent,             \* history: the pieces the parent writes to stdin, in order
    input,            \* all the bytes the parent ever writes to stdin
    pos,              \* number of bytes of input consumed so far
    pc,               \* position of the worker in the script
    length_line, data_length, pcm_bytes, trailing_newline,
    audio, max_amp, segments, segment_list, transcribed_text,
    e,                \* the exception being handled by `except Exception`
    stdout_buf,       \* lines printed to stdout and not yet flushed
    stdout,           \* lines flushed to the parent
    stderr,           \* diagnostic messages, by kind
    calls,            \* history: the waveforms passed to model.transcribe
    iterStart,        \* history: value of pos when the current iteration began
    prev              \* history: how the previous iteration ended

vars == <<sent, input, pos, pc, length_line, data_length, pcm_bytes, trailing_newline,
          audio, max_amp, segments, segment_list, transcribed_text, e,
          stdout_buf, stdout, stderr, calls, iterStart, prev>>

locals == <<length_line, data_length, pcm_bytes, trailing_newline,
            audio, max_amp, segments, segment_list, transcribed_text, e>>

(***************************************************************************)
(* Helpers on sequences.                                                   *)
(***************************************************************************)
Min(a, b) == IF a < b THEN a ELSE b
Abs(x) == IF x < 0 THEN 0 - x ELSE x
Last(s) == s[Len(s)]

RECURSIVE Flatten(_)
Flatten(ss) == IF ss = <<>> THEN <<>> ELSE Head(ss) \o Flatten(Tail(ss))

RECURSIVE Count(_, _)
Count(x, s) == IF s = <<>> THEN 0
               ELSE (IF Head(s) = x THEN 1 ELSE 0) + Count(x, Tail(s))

(***************************************************************************)
(* sys.stdin.buffer.readline() and read(n) on a blocking pipe.             *)
(***************************************************************************)
\* index of the first newline after offset p, or Len(input) when there is none
RECURSIVE LineEnd(_, _)
LineEnd(inp, i) ==
    IF i >= Len(inp) THEN Len(inp)
    ELSE IF inp[i + 1] = NL THEN i + 1
    ELSE LineEnd(inp, i + 1)

ReadLine(inp, p) == SubSeq(inp, p + 1, LineEnd(inp, p))

\* read(n), n >= 0: n bytes, fewer only at end of stream
ReadN(inp, p, n) == SubSeq(inp, p + 1, p + Min(n, Len(inp) - p))

\* read(-1): everything up to end of stream
ReadAll(inp, p) == SubSeq(inp, p + 1, Len(inp))

\* a length test that only rejects an empty payload
ReadFailedOnlyEmpty(got, n) == got = <<>>

\* a length test that lets an empty read pass for a zero-length payload
ReadFailedOnlyShort(got, n) == Len(got) # n

\* line 41: not pcm_bytes or len(pcm_bytes) != data_length
ReadFailed(got, n) == got = <<>> \/ Len(got) # n

\* a delimiter test that lets end of stream pass for a newline
BadDelimiterUnlessEof(got) == got # <<NL>> /\ got # <<>>

\* line 50: trailing_newline != b'\n'
BadDelimiter(got) == got # <<NL>>

(***************************************************************************)
(* length_line.strip().decode('utf-8') and int(length_str).                *)
(***************************************************************************)
\* what bytes.strip() removes, which is also what int() skips around a number
BytesWhitespace == {9, 10, 11, 12, 13, 32}
\* what str.strip() removes, within ASCII
StrWhitespace == BytesWhitespace \cup {28, 29, 30, 31}

RECURSIVE LStrip(_, _)
LStrip(s, ws) == IF s # <<>> /\ Head(s) \in ws THEN LStrip(Tail(s), ws) ELSE s

RECURSIVE RStrip(_, _)
RStrip(s, ws) == IF s # <<>> /\ Last(s) \in ws
                 THEN RStrip(SubSeq(s, 1, Len(s) - 1), ws) ELSE s

Strip(s, ws) == RStrip(LStrip(s, ws), ws)

IsCont(b) == b \in 128..191

\* strict UTF-8 validity of a byte string, as bytes.decode('utf-8') checks it
RECURSIVE ValidUtf8(_)
ValidUtf8(s) ==
    IF s = <<>> THEN TRUE
    ELSE LET b == s[1]
             n == Len(s)
         IN IF b < 128 THEN ValidUtf8(Tail(s))
            ELSE IF b \in 194..223
                 THEN n >= 2 /\ IsCont(s[2]) /\ ValidUtf8(SubSeq(s, 3, n))
            ELSE IF b \in 224..239
                 THEN /\ n >= 3
                      /\ IF b = 224 THEN s[2] \in 160..191
                         ELSE IF b = 237 THEN s[2] \in 128..159
                         ELSE IsCont(s[2])
                      /\ IsCont(s[3])
                      /\ ValidUtf8(SubSeq(s, 4, n))
            ELSE IF b \in 240..244
                 THEN /\ n >= 4
                      /\ IF b = 240 THEN s[2] \in 144..191
                         ELSE IF b = 244 THEN s[2] \in 128..143
                         ELSE IsCont(s[2])
                      /\ IsCont(s[3]) /\ IsCont(s[4])
                      /\ ValidUtf8(SubSeq(s, 5, n))
            ELSE FALSE

IsDigit(b) == b \in 48..57

\* digit (['_'] digit)* : the digit part of a base-10 int() literal
RECURSIVE DigitsOK(_)
DigitsOK(s) ==
    /\ s # <<>>
    /\ IsDigit(s[1])
    /\ \/ Len(s) = 1
       \/ IF s[2] = 95 THEN DigitsOK(SubSeq(s, 3, Len(s)))
          ELSE DigitsOK(Tail(s))

Unsigned(s) == IF s # <<>> /\ s[1] \in {43, 45} THEN Tail(s) ELSE s

\* a parser that takes any string for a number
IsIntLiteralLoose(s) == s # <<>>

\* int(length_str) does not raise ValueError.  Decimal digits and spaces
\* outside ASCII are not part of the modelled alphabet.
IsIntLiteral(s) == DigitsOK(Unsigned(Strip(s, BytesWhitespace)))

RECURSIVE DigitsValue(_, _)
DigitsValue(s, acc) ==
    IF s = <<>> THEN acc
    ELSE IF s[1] = 95 THEN DigitsValue(Tail(s), acc)
    ELSE DigitsValue(Tail(s), acc * 10 + (s[1] - 48))

IntValue(s) ==
    LET t == Strip(s, BytesWhitespace)
        v == DigitsValue(Unsigned(t), 0)
    IN IF t[1] = 45 THEN 0 - v ELSE v

(***************************************************************************)
(* PCM16 decoding, peak amplitude and the silence test.                    *)
(***************************************************************************)
\* the byte pair read high byte first
DecodeSampleBigEndian(b0, b1) ==
    LET sample == b0 * 256 + b1
    IN IF sample > 32767 THEN sample - INT16_WRAP ELSE sample

\* lines 62-65; b0 | (b1 << 8) is b0 + b1 * 256 for bytes
DecodeSample(b0, b1) ==
    LET sample == b0 + b1 * 256
    IN IF sample > 32767 THEN sample - INT16_WRAP ELSE sample

DecodePCM16(bytes) ==
    [i \in 1..(Len(bytes) \div 2) |-> DecodeSample(bytes[2 * i - 1], bytes[2 * i])]

\* np.max(audio): the peak taken without np.abs
MaxSigned(a) == CHOOSE m \in {a[i] : i \in 1..Len(a)} :
                    \A i \in 1..Len(a) : a[i] <= m

\* np.max(np.abs(audio)), as the numerator over PCM_SCALE; audio is not empty
MaxAbs(a) == CHOOSE m \in {Abs(a[i]) : i \in 1..Len(a)} :
                 \A i \in 1..Len(a) : Abs(a[i]) <= m

\* max_amp < MIN_AUDIO_LEVEL
TooQuiet(amp) == amp * MIN_AUDIO_LEVEL_DEN < MIN_AUDIO_LEVEL_NUM * PCM_SCALE

(***************************************************************************)
(* " ".join([segment.text.strip() for segment in segment_list])            *)
(***************************************************************************)
RECURSIVE JoinStripped(_)
JoinStripped(segs) ==
    IF segs = <<>> THEN <<>>
    ELSE IF Len(segs) = 1 THEN Strip(segs[1], StrWhitespace)
    ELSE Strip(segs[1], StrWhitespace) \o <<32>> \o JoinStripped(Tail(segs))

\* a silent frame answered with an empty line
SilentLinesEmptyLine == << <<>> >>

\* lines 75-79: what the silent path prints to stdout (nothing; it only flushes)
SilentLines == <<>>

\* an empty segment list answered with an empty line
NoSpeechLinesEmptyLine == << <<>> >>

\* the "No speech" diagnostic printed without file=sys.stderr
NoSpeechLinesDiagnostic == << <<78, 111, 32, 115, 112, 101, 101, 99, 104>> >>

\* lines 94-95: what the no-segments path prints to stdout (nothing)
NoSpeechLines == <<>>

(***************************************************************************)
(* The inputs: byte streams built from frames and fragments of frames, and *)
(* the results the engine can give.                                        *)
(***************************************************************************)
RECURSIVE ToDecimal(_)
ToDecimal(n) == IF n < 10 THEN <<48 + n>>
                ELSE ToDecimal(n \div 10) \o <<48 + (n % 10)>>

Header(n) == ToDecimal(n) \o <<NL>>
Frame(payload) == Header(Len(payload)) \o payload \o <<NL>>

\* a frame sent with the length line "x": its 4-byte payload reads "2\n" and
\* one sample
BadHeaderFrame == <<120, NL>> \o <<50, NL, 255, 127>> \o <<NL>>

\* declared length 0 followed by a byte that is not a newline
ZeroThenStray == <<48, NL, 120>>

Pieces ==
    { Frame(<<255, 127>>),            \* one sample  32767
      Frame(<<0, 128>>),              \* one sample -32768
      Frame(<<205, 12>>),             \* one sample 3277, just above 0.1
      Frame(<<204, 12>>),             \* one sample 3276, just below 0.1
      Frame(<<0, 0>>),                \* digital silence
      Frame(<<10, 0, 51, 243>>),      \* two samples 10 and -3277
      Frame(<<0, 64, 10>>),           \* odd payload length
      Frame(<<49>>),                  \* a payload without a whole sample
      Frame(<<>>),                    \* declared length 0
      <<120, NL>>,                    \* non-numeric length line
      <<NL>>,                         \* empty length line
      <<128, NL>>,                    \* length line that is not UTF-8
      <<45, 49, NL>>,                 \* length line -1
      <<45, 50, NL>>,                 \* length line -2
      <<52, NL, 0, 64>>,              \* declares 4 bytes, carries 2
      <<50, NL, 0, 64, 120>>,         \* wrong delimiter byte
      <<50, NL, 0, 64>>,              \* payload without a delimiter
      <<49>>, <<120>>,                \* stray bytes
      BadHeaderFrame, ZeroThenStray }

\* what the parent sends: at most MaxPieces pieces
Sent == UNION { [1..n -> Pieces] : n \in 0..MaxPieces }

Inputs == { Flatten(ps) : ps \in Sent }

\* segment texts: " hi", "yo "
SegmentLists == { <<>>, << <<32, 104, 105>> >>, << <<32, 104, 105>>, <<121, 111, 32>> >> }

\* model.transcribe raises, or returns a lazy generator of segments that
\* yields a list or raises while it is consumed
Generators == [items : SegmentLists, fails : BOOLEAN]

(***************************************************************************)
(* Positions of the worker.                                                *)
(***************************************************************************)
TryPcs == {"readline", "readpcm", "readnl", "decode", "gate", "transcribe",
           "output", "flush"}
LoopPcs == TryPcs \cup {"handler"}

Init ==
    /\ sent \in Sent
    /\ input = Flatten(sent)
    /\ pos = 0
    /\ pc = "readline"
    /\ length_line = <<>>
    /\ data_length = 0
    /\ pcm_bytes = <<>>
    /\ trailing_newline = <<>>
    /\ audio = <<>>
    /\ max_amp = 0
    /\ segments = [items |-> <<>>, fails |-> FALSE]
    /\ segment_list = <<>>
    /\ transcribed_text = <<>>
    /\ e = "none"
    /\ stdout_buf = <<>>
    /\ stdout = <<>>
    /\ stderr = <<>>
    /\ calls = <<>>
    /\ iterStart = 0
    /\ prev = "start"

(***************************************************************************)
(* Lines 23-37: read and parse the length line.                            *)
(***************************************************************************)
ReadLength ==
    /\ pc = "readline"
    /\ LET line == ReadLine(input, pos)
           length_str == Strip(line, BytesWhitespace)
       IN /\ iterStart' = pos
          /\ IF line = <<>>
             THEN /\ stderr' = Append(stderr, "EndOfStream")
                  /\ pc' = "shutdown"
                  /\ UNCHANGED <<pos, length_line, data_length, e, prev>>
             ELSE /\ pos' = pos + Len(line)
                  /\ length_line' = line
                  /\ IF ~ValidUtf8(length_str)
                     THEN /\ e' = "UnicodeDecodeError"
                          /\ pc' = "handler"
                          /\ UNCHANGED <<data_length, stderr, prev>>
                     ELSE IF ~IsIntLiteral(length_str)
                     THEN /\ stderr' = Append(stderr, "InvalidLength")
                          /\ pc' = "readline"
                          /\ prev' = "badlength"
                          /\ UNCHANGED <<data_length, e>>
                     ELSE /\ data_length' = IntValue(length_str)
                          /\ stderr' = Append(stderr, "Expecting")
                          /\ pc' = "readpcm"
                          /\ UNCHANGED <<e, prev>>
    /\ UNCHANGED <<sent, input, pcm_bytes, trailing_newline, audio, max_amp, segments,
                   segment_list, transcribed_text, stdout_buf, stdout, calls>>

(***************************************************************************)
(* Lines 40-46: read the payload; on a failed read, read one more byte.    *)
(***************************************************************************)
ReadPayload ==
    /\ pc = "readpcm"
    /\ IF data_length < -1
       THEN \* BufferedReader.read raises ValueError
            /\ e' = "ValueError"
            /\ pc' = "handler"
            /\ UNCHANGED <<pos, pcm_bytes, stderr, prev>>
       ELSE LET got == IF data_length = -1 THEN ReadAll(input, pos)
                       ELSE ReadN(input, pos, data_length)
                after == pos + Len(got)
            IN /\ pcm_bytes' = got
               /\ IF ReadFailed(got, data_length)
                  THEN /\ stderr' = Append(stderr, "FailedRead")
                       /\ pos' = after + Len(ReadN(input, after, 1))
                       /\ pc' = "readline"
                       /\ prev' = "failedread"
                  ELSE /\ pos' = after
                       /\ pc' = "readnl"
                       /\ UNCHANGED <<stderr, prev>>
               /\ UNCHANGED e
    /\ UNCHANGED <<sent, input, length_line, data_length, trailing_newline, audio,
                   max_amp, segments, segment_list, transcribed_text,
                   stdout_buf, stdout, calls, iterStart>>

(***************************************************************************)
(* Lines 49-53: read and check the trailing newline.                       *)
(***************************************************************************)
ReadNewline ==
    /\ pc = "readnl"
    /\ LET got == ReadN(input, pos, 1)
       IN /\ trailing_newline' = got
          /\ pos' = pos + Len(got)
          /\ IF BadDelimiter(got)
             THEN /\ stderr' = Append(stderr, "ExpectedNewline")
                  /\ pc' = "readline"
                  /\ prev' = "nodelim"
             ELSE /\ pc' = "decode"
                  /\ UNCHANGED <<stderr, prev>>
    /\ UNCHANGED <<sent, input, length_line, data_length, pcm_bytes, audio, max_amp,
                   segments, segment_list, transcribed_text, e, stdout_buf,
                   stdout, calls, iterStart>>

(***************************************************************************)
(* Lines 56-67: PCM16 bytes to samples.                                    *)
(***************************************************************************)
Decode ==
    /\ pc = "decode"
    /\ audio' = DecodePCM16(pcm_bytes)
    /\ pc' = "gate"
    /\ UNCHANGED <<sent, input, pos, length_line, data_length, pcm_bytes,
                   trailing_newline, max_amp, segments, segment_list,
                   transcribed_text, e, stdout_buf, stdout, stderr, calls,
                   iterStart, prev>>

(***************************************************************************)
(* Lines 70-83: peak amplitude and the silence gate.                       *)
(***************************************************************************)
Gate ==
    /\ pc = "gate"
    /\ IF audio = <<>>
       THEN \* np.max of an empty array raises ValueError
            /\ e' = "ValueError"
            /\ pc' = "handler"
            /\ UNCHANGED <<max_amp, stderr, stdout, stdout_buf, prev>>
       ELSE /\ max_amp' = MaxAbs(audio)
            /\ IF TooQuiet(MaxAbs(audio))
               THEN /\ stderr' = stderr \o <<"Received", "TooQuiet">>
                    /\ stdout' = stdout \o stdout_buf \o SilentLines
                    /\ stdout_buf' = <<>>
                    /\ pc' = "readline"
                    /\ prev' = "silent"
               ELSE /\ stderr' = stderr \o <<"Received", "Running">>
                    /\ pc' = "transcribe"
                    /\ UNCHANGED <<stdout, stdout_buf, prev>>
            /\ UNCHANGED e
    /\ UNCHANGED <<sent, input, pos, length_line, data_length, pcm_bytes,
                   trailing_newline, audio, segments, segment_list,
                   transcribed_text, calls, iterStart>>

(***************************************************************************)
(* Lines 84-90: the call of the engine.                                    *)
(***************************************************************************)
Transcribe ==
    /\ pc = "transcribe"
    /\ calls' = Append(calls, audio)
    /\ \/ /\ e' = "EngineError"
          /\ pc' = "handler"
          /\ UNCHANGED segments
       \/ \E g \in Generators :
             /\ segments' = g
             /\ pc' = "output"
             /\ UNCHANGED e
    /\ UNCHANGED <<sent, input, pos, length_line, data_length, pcm_bytes,
                   trailing_newline, audio, max_amp, segment_list,
                   transcribed_text, stdout_buf, stdout, stderr, iterStart, prev>>

(***************************************************************************)
(* Lines 93-101: consume the segments and print the text.                  *)
(***************************************************************************)
Output ==
    /\ pc = "output"
    /\ IF segments.fails
       THEN /\ e' = "EngineError"
            /\ pc' = "handler"
            /\ UNCHANGED <<segment_list, transcribed_text, stderr, stdout_buf>>
       ELSE /\ segment_list' = segments.items
            /\ IF segments.items = <<>>
               THEN /\ stderr' = Append(stderr, "NoSpeech")
                    /\ stdout_buf' = stdout_buf \o NoSpeechLines
                    /\ UNCHANGED transcribed_text
               ELSE /\ transcribed_text' = JoinStripped(segments.items)
                    /\ stderr' = Append(stderr, "Detected")
                    /\ stdout_buf' = Append(stdout_buf, JoinStripped(segments.items))
            /\ pc' = "flush"
            /\ UNCHANGED e
    /\ UNCHANGED <<sent, input, pos, length_line, data_length, pcm_bytes,
                   trailing_newline, audio, max_amp, segments, stdout, calls,
                   iterStart, prev>>

\* an iteration that ends without flushing stdout
FlushForgotten ==
    /\ pc = "flush"
    /\ pc' = "readline"
    /\ prev' = "flushed"
    /\ UNCHANGED <<sent, input, pos, locals, stdout, stdout_buf, stderr, calls,
                   iterStart>>

\* a flush that puts the buffered lines in front of the lines already sent
FlushReorders ==
    /\ pc = "flush"
    /\ stdout' = stdout_buf \o stdout
    /\ stdout_buf' = <<>>
    /\ pc' = "readline"
    /\ prev' = "flushed"
    /\ UNCHANGED <<sent, input, pos, locals, stderr, calls, iterStart>>

(***************************************************************************)
(* Lines 104-105: flush.                                                   *)
(***************************************************************************)
Flush ==
    /\ pc = "flush"
    /\ stdout' = stdout \o stdout_buf
    /\ stdout_buf' = <<>>
    /\ pc' = "readline"
    /\ prev' = "flushed"
    /\ UNCHANGED <<sent, input, pos, locals, stderr, calls, iterStart>>

\* a handler that leaves the loop
HandlerBreaks ==
    /\ pc = "handler"
    /\ stderr' = Append(stderr, "Error")
    /\ pc' = "shutdown"
    /\ prev' = "error"
    /\ UNCHANGED <<sent, input, pos, locals, stdout_buf, stdout, calls, iterStart>>

\* a handler that rewinds the input to retry the frame
HandlerRewinds ==
    /\ pc = "handler"
    /\ stderr' = Append(stderr, "Error")
    /\ pos' = iterStart
    /\ pc' = "readline"
    /\ prev' = "error"
    /\ UNCHANGED <<sent, input, locals, stdout_buf, stdout, calls, iterStart>>

\* a handler that discards one byte of input to resynchronise
HandlerResyncs ==
    /\ pc = "handler"
    /\ stderr' = Append(stderr, "Error")
    /\ pos' = pos + Len(ReadN(input, pos, 1))
    /\ pc' = "readline"
    /\ prev' = "error"
    /\ UNCHANGED <<sent, input, locals, stdout_buf, stdout, calls, iterStart>>

(***************************************************************************)
(* Lines 111-115: except Exception.                                        *)
(***************************************************************************)
Handler ==
    /\ pc = "handler"
    /\ stderr' = Append(stderr, "Error")
    /\ pc' = "readline"
    /\ prev' = "error"
    /\ UNCHANGED <<sent, input, pos, locals, stdout_buf, stdout, calls, iterStart>>

(***************************************************************************)
(* KeyboardInterrupt.  Raised inside the try body it is caught at line     *)
(* 107; raised inside one of the except clauses or after the loop it is    *)
(* not caught by anything and the interpreter exits with a traceback,      *)
(* flushing stdout on the way out.                                         *)
(***************************************************************************)
Interrupt ==
    /\ pc \in LoopPcs \cup {"kbhandler", "shutdown"}
    /\ IF pc \in TryPcs
       THEN /\ pc' = "kbhandler"
            /\ UNCHANGED <<stderr, stdout, stdout_buf>>
       ELSE /\ pc' = "crashed"
            /\ stderr' = Append(stderr, "Traceback")
            /\ stdout' = stdout \o stdout_buf
            /\ stdout_buf' = <<>>
    /\ UNCHANGED <<sent, input, pos, locals, calls, iterStart, prev>>

(***************************************************************************)
(* Lines 108-110: except KeyboardInterrupt.                                *)
(***************************************************************************)
KbHandler ==
    /\ pc = "kbhandler"
    /\ stderr' = Append(stderr, "Interrupt")
    /\ pc' = "shutdown"
    /\ UNCHANGED <<sent, input, pos, locals, stdout_buf, stdout, calls, iterStart, prev>>

(***************************************************************************)
(* Lines 117-118 and interpreter exit.                                     *)
(***************************************************************************)
Shutdown ==
    /\ pc = "shutdown"
    /\ stderr' = Append(stderr, "Shutdown")
    /\ stdout' = stdout \o stdout_buf
    /\ stdout_buf' = <<>>
    /\ pc' = "done"
    /\ UNCHANGED <<sent, input, pos, locals, calls, iterStart, prev>>

Next ==
    \/ ReadLength
    \/ ReadPayload
    \/ ReadNewline
    \/ Decode
    \/ Gate
    \/ Transcribe
    \/ Output
    \/ Flush
    \/ Handler
    \/ Interrupt
    \/ KbHandler
    \/ Shutdown

Spec == Init /\ [][Next]_vars

\* the steps the interpreter takes by itself: every one of them returns (the
\* input is finite, so a blocking read ends with data or at end of stream;
\* the engine returns or raises; the sleep ends)
WorkerStep ==
    \/ ReadLength
    \/ ReadPayload
    \/ ReadNewline
    \/ Decode
    \/ Gate
    \/ Transcribe
    \/ Output
    \/ Flush
    \/ Handler
    \/ KbHandler
    \/ Shutdown

\* pieces for the ways an iteration can end before end of stream
LivePieces ==
    { Frame(<<255, 127>>),            \* reaches the engine
      Frame(<<0, 0>>),                \* silent
      Frame(<<49>>),                  \* np.max raises
      <<120, NL>>,                    \* non-numeric length line
      <<50, NL, 0, 64, 120>> }        \* wrong delimiter byte

LiveInit ==
    /\ Init
    /\ \A j \in 1..Len(sent) : sent[j] \in LivePieces

\* the interpreter keeps running the script; a KeyboardInterrupt may or may
\* not arrive
FairSpec == LiveInit /\ [][Next]_vars /\ WF_vars(WorkerStep)

(***************************************************************************)
(* Vocabulary of the properties.                                           *)
(***************************************************************************)
\* every line the worker has printed to stdout, flushed or not
Written == stdout \o stdout_buf

\* the step is not the delivery of a KeyboardInterrupt
NoInterrupt == pc' \notin {"kbhandler", "crashed"}

\* the sender's frame with an n-byte payload starts at offset i of the input
FrameAt(i, n) ==
    /\ i + Len(Header(n)) + n + 1 <= Len(input)
    /\ SubSeq(input, i + 1, i + Len(Header(n))) = Header(n)
    /\ input[i + Len(Header(n)) + n + 1] = NL

Payload(i, n) == SubSeq(input, i + Len(Header(n)) + 1, i + Len(Header(n)) + n)
FrameEnd(i, n) == i + Len(Header(n)) + n + 1

\* the peak |s|/32767 of a waveform is strictly below MIN_AUDIO_LEVEL
PeakBelowThreshold(a) ==
    \A i \in 1..Len(a) :
        Abs(a[i]) * MIN_AUDIO_LEVEL_DEN < MIN_AUDIO_LEVEL_NUM * PCM_SCALE

\* In an iteration for which P holds, a well-formed frame at the read
\* position is read, decoded and gated: each step of the iteration takes the
\* frame one stage further with the values the frame determines.
ProcessedNormallyWhen(P) ==
    \A n \in 1..Len(input) :
        (P /\ NoInterrupt) =>
            /\ (pc = "readline" /\ FrameAt(pos, n)) =>
                   /\ pc' = "readpcm"
                   /\ data_length' = n
                   /\ pos' = pos + Len(Header(n))
            /\ (pc = "readpcm" /\ FrameAt(iterStart, n)) =>
                   /\ pc' = "readnl"
                   /\ pcm_bytes' = Payload(iterStart, n)
            /\ (pc = "readnl" /\ FrameAt(iterStart, n)) =>
                   /\ pc' = "decode"
                   /\ pos' = FrameEnd(iterStart, n)
            /\ (pc = "decode" /\ FrameAt(iterStart, n)) =>
                   /\ pc' = "gate"
                   /\ audio' = DecodePCM16(Payload(iterStart, n))
            /\ (pc = "gate" /\ FrameAt(iterStart, n) /\ n >= 2) =>
                   /\ pc' = IF PeakBelowThreshold(audio) THEN "readline"
                            ELSE "transcribe"
                   /\ pos' = FrameEnd(iterStart, n)

\* a well-formed frame with at least one sample has reached the gate
GatedFrame(n) == pc = "gate" /\ n >= 2 /\ FrameAt(iterStart, n)

(***************************************************************************)
(* C1                                                                      *)
(***************************************************************************)
\* C1 (as claimed): when the gate finds a well-formed frame's peak strictly
\* below the threshold, the worker writes exactly one empty line to stdout
\* for that frame.
C1_SilentFrameWritesEmptyLine ==
    [][\A n \in 1..Len(input) :
          (GatedFrame(n) /\ PeakBelowThreshold(DecodePCM16(Payload(iterStart, n)))
              /\ NoInterrupt)
          => Written' = Append(Written, <<>>)]_vars

\* C1 (amended): when the gate finds a well-formed frame's peak strictly
\* below the threshold, the worker writes no line to stdout for that frame
\* and goes back to reading; after any sequence of frames the number of
\* stdout lines equals the number of frames for which the engine returned a
\* non-empty segment list.
C1_SilentFrameWritesNoLine ==
    /\ [][\A n \in 1..Len(input) :
             (GatedFrame(n) /\ PeakBelowThreshold(DecodePCM16(Payload(iterStart, n)))
                 /\ NoInterrupt)
             => (Written' = Written /\ pc' = "readline")]_vars
    /\ [](Len(Written) = Count("Detected", stderr))

\* a silent frame was gated after an earlier frame had produced a line
C1_Witness ==
    /\ pc = "readline"
    /\ prev = "silent"
    /\ Last(stderr) = "TooQuiet"
    /\ Len(stdout) = 1

(***************************************************************************)
(* C2                                                                      *)
(***************************************************************************)
\* C2 (as claimed): when the engine returns an empty segment list for a
\* frame, the worker writes one empty line to stdout for that frame.
C2_EmptyResultWritesEmptyLine ==
    [][(pc = "output" /\ ~segments.fails /\ segments.items = <<>> /\ NoInterrupt)
          => Written' = Append(Written, <<>>)]_vars

\* C2 (amended): when the engine returns an empty segment list for a frame,
\* the worker writes no line to stdout for that frame; it flushes and goes
\* back to reading.
C2_EmptyResultWritesNoLine ==
    /\ [][(pc = "output" /\ ~segments.fails /\ segments.items = <<>> /\ NoInterrupt)
             => (Written' = Written /\ pc' = "flush" /\ segment_list' = <<>>)]_vars
    /\ [][(pc = "flush" /\ segment_list = <<>> /\ NoInterrupt)
             => (stdout' = Written /\ stdout_buf' = <<>> /\ pc' = "readline")]_vars

\* the engine was called, returned no segments, and the iteration is over
C2_Witness ==
    /\ pc = "readline"
    /\ prev = "flushed"
    /\ Last(stderr) = "NoSpeech"
    /\ segment_list = <<>>
    /\ Len(calls) >= 1

(***************************************************************************)
(* C3                                                                      *)
(***************************************************************************)
\* C3: for a well-formed frame with at least one sample the engine is called
\* if and only if the peak amplitude of its decoded payload is at least
\* MIN_AUDIO_LEVEL; a frame below the threshold goes back to reading without
\* a call, and every waveform the engine is ever called with has a peak at
\* or above the threshold.
C3_EngineIffPeakAtLeastThreshold ==
    /\ [][\A n \in 1..Len(input) :
             (GatedFrame(n) /\ NoInterrupt) =>
                 LET wave == DecodePCM16(Payload(iterStart, n))
                 IN /\ audio = wave
                    /\ (pc' = "transcribe") <=> ~PeakBelowThreshold(wave)
                    /\ PeakBelowThreshold(wave) => (pc' = "readline" /\ calls' = calls)]_vars
    /\ [][(pc = "transcribe" /\ NoInterrupt) => calls' = Append(calls, audio)]_vars
    /\ [][calls' # calls =>
             (pc = "transcribe" /\ calls' = Append(calls, audio)
                 /\ ~PeakBelowThreshold(audio))]_vars

\* a frame just above the threshold was passed to the engine and the next
\* frame, just below it, was not
C3_Witness ==
    /\ pc = "readline"
    /\ prev = "silent"
    /\ max_amp = 3276
    /\ Len(calls) = 1
    /\ MaxAbs(calls[1]) = 3277

(***************************************************************************)
(* C4                                                                      *)
(***************************************************************************)
NumericBytes == (48..57) \cup {43, 45, 95} \cup BytesWhitespace

\* the line at offset i holds a byte that cannot occur in a number
NonNumericLineAt(i) ==
    /\ i < Len(input)
    /\ \E k \in (i + 1)..LineEnd(input, i) : input[k] \notin NumericBytes

\* C4: a non-numeric length line is dropped: the step that reads it consumes
\* exactly that line, calls no engine, writes no stdout line and stays in the
\* loop (through the exception handler when the line is not UTF-8, which
\* consumes nothing); a well-formed frame right after it is read, decoded
\* and gated normally.
C4_NonNumericLengthLineSkipped ==
    /\ [][(pc = "readline" /\ NonNumericLineAt(pos) /\ NoInterrupt) =>
             /\ pos' = LineEnd(input, pos)
             /\ pc' \in {"readline", "handler"}
             /\ pc' = "handler" => e' = "UnicodeDecodeError"
             /\ Written' = Written
             /\ calls' = calls
             /\ audio' = audio]_vars
    /\ [][(pc = "handler" /\ e = "UnicodeDecodeError" /\ NoInterrupt) =>
             /\ pc' = "readline"
             /\ pos' = pos
             /\ Written' = Written
             /\ calls' = calls]_vars
    /\ [][ProcessedNormallyWhen(\/ prev = "badlength"
                                \/ prev = "error" /\ e = "UnicodeDecodeError")]_vars

\* the frame after a non-numeric length line has reached the engine call
C4_Witness ==
    /\ pc = "transcribe"
    /\ prev = "badlength"
    /\ iterStart > 0
    /\ \E n \in 2..Len(input) : FrameAt(iterStart, n)

(***************************************************************************)
(* C5                                                                      *)
(***************************************************************************)
\* the line at offset i is a minus sign, decimal digits and a newline
NegativeLineAt(i) ==
    LET line == ReadLine(input, i)
    IN /\ Len(line) >= 3
       /\ line[1] = 45
       /\ line[Len(line)] = NL
       /\ \A k \in 2..(Len(line) - 1) : IsDigit(line[k])

\* C5 (as claimed): when an iteration that read a negative length line is
\* over, no byte beyond that line has been consumed.
C5_NegativeLengthConsumesOnlyItsLine ==
    (pc = "readline" /\ prev # "start" /\ NegativeLineAt(iterStart))
        => pos = LineEnd(input, iterStart)

(***************************************************************************)
(* C6                                                                      *)
(***************************************************************************)
\* C6: when fewer than data_length payload bytes are left, the payload read
\* discards the frame: nothing is decoded, no engine call is made, no stdout
\* line is written, at most one byte beyond the bytes obtained is consumed,
\* and the worker goes back to reading a length line.
C6_ShortReadDiscarded ==
    [][(pc = "readpcm" /\ data_length >= 1 /\ Len(input) - pos < data_length
           /\ NoInterrupt) =>
          /\ pc' = "readline"
          /\ pos' - (pos + (Len(input) - pos)) \in {0, 1}
          /\ pos' <= Len(input)
          /\ audio' = audio
          /\ calls' = calls
          /\ Written' = Written]_vars

\* a payload read came up short and the worker is reading again
C6_Witness ==
    /\ pc = "readline"
    /\ prev = "failedread"
    /\ Len(pcm_bytes) >= 1
    /\ Len(pcm_bytes) < data_length

(***************************************************************************)
(* C7                                                                      *)
(***************************************************************************)
\* C7: when the byte after a full payload is not a newline, or there is no
\* such byte, the frame is discarded: nothing is decoded, no engine call is
\* made, no stdout line is written, and the worker goes back to reading a
\* length line.
C7_MissingDelimiterDiscarded ==
    [][(pc = "readnl" /\ (pos = Len(input) \/ input[pos + 1] # NL)
           /\ NoInterrupt) =>
          /\ pc' = "readline"
          /\ pos' = Min(pos + 1, Len(input))
          /\ audio' = audio
          /\ calls' = calls
          /\ Written' = Written]_vars

\* a full payload was followed by nothing and the worker is reading again
C7_Witness ==
    /\ pc = "readline"
    /\ prev = "nodelim"
    /\ trailing_newline = <<>>
    /\ Len(pcm_bytes) = data_length
    /\ Len(stderr) > 2

(***************************************************************************)
(* C8                                                                      *)
(***************************************************************************)
\* C8: a step that leaves the loop without an interrupt is the read of a
\* length line at end of stream.
C8_LoopExitsOnlyAtEndOfStream ==
    [][(pc \in LoopPcs /\ pc' \notin LoopPcs /\ NoInterrupt) =>
          /\ pc = "readline"
          /\ pos = Len(input)
          /\ pc' = "shutdown"]_vars

\* the loop survived an exception and a failed read and ended at end of stream
C8_Witness ==
    /\ pc = "shutdown"
    /\ Last(stderr) = "EndOfStream"
    /\ Count("Error", stderr) >= 1
    /\ Count("FailedRead", stderr) >= 1

(***************************************************************************)
(* C9                                                                      *)
(***************************************************************************)
\* C9: when the engine call or the consumption of its segments raises, no
\* stdout line is written for the frame, the handler returns to the read of
\* a length line, the read position stays immediately after the failed
\* frame's trailing newline, and a well-formed frame that follows is read,
\* decoded and gated normally.
C9_EngineExceptionSkipsFrame ==
    /\ [][(pc \in {"transcribe", "output"} /\ pc' = "handler") =>
             /\ e' = "EngineError"
             /\ Written' = Written
             /\ pos' = pos]_vars
    /\ [][(pc = "handler" /\ e = "EngineError" /\ NoInterrupt) =>
             /\ pc' = "readline"
             /\ pos' = pos
             /\ Written' = Written]_vars
    /\ [](pc = "handler" /\ e = "EngineError" =>
             /\ pos = iterStart + Len(length_line) + Len(pcm_bytes) + 1
             /\ SubSeq(input, iterStart + 1, pos) = length_line \o pcm_bytes \o <<NL>>)
    /\ [][ProcessedNormallyWhen(prev = "error" /\ e = "EngineError")]_vars

\* the frame after a frame on which the engine raised has produced a line
C9_Witness ==
    /\ pc = "flush"
    /\ prev = "error"
    /\ e = "EngineError"
    /\ iterStart > 0
    /\ stdout_buf # <<>>

(***************************************************************************)
(* C10                                                                     *)
(***************************************************************************)
\* C10 (as claimed): a KeyboardInterrupt delivered at any point of the loop,
\* the exception handler included, is caught and leads to the shutdown path.
C10_InterruptInLoopIsCaught ==
    [][(pc \in LoopPcs /\ ~NoInterrupt) => pc' = "kbhandler"]_vars

(***************************************************************************)
(* C11                                                                     *)
(***************************************************************************)
\* the lines the engine results of the model give: "hi" and "hi yo"
ResultLines == { <<104, 105>>, <<104, 105, 32, 121, 111>> }

\* C11: every line on stdout is the space-joined stripped segment texts of
\* one engine call that returned segments; a step that writes to stdout is
\* the output step of such a call and writes that one line, so no diagnostic
\* is ever written to stdout.
C11_StdoutHoldsOnlyResultLines ==
    /\ [](\A k \in 1..Len(Written) : Written[k] \in ResultLines)
    /\ [][Written' # Written =>
             /\ pc = "output"
             /\ ~segments.fails
             /\ segments.items # <<>>
             /\ Len(Written') = Len(Written) + 1
             /\ SubSeq(Written', 1, Len(Written)) = Written
             /\ Last(Written') \in ResultLines]_vars

\* the worker has logged a silent frame and a result, and stdout holds the
\* result line alone
C11_Witness ==
    /\ pc = "done"
    /\ stdout = << <<104, 105, 32, 121, 111>> >>
    /\ Count("TooQuiet", stderr) = 1
    /\ Count("Detected", stderr) = 1

(***************************************************************************)
(* C12                                                                     *)
(***************************************************************************)
\* C12: whenever the worker is about to read from stdin (a length line, a
\* payload or a delimiter), every line it has printed to stdout has been
\* flushed.
C12_NothingUnflushedWhileReading ==
    pc \in {"readline", "readpcm", "readnl"} => stdout_buf = <<>>

\* the worker is back at the length-line read after printing a line
C12_Witness ==
    /\ pc = "readline"
    /\ prev = "flushed"
    /\ Last(stderr) = "Detected"
    /\ stdout # <<>>

(***************************************************************************)
(* C13                                                                     *)
(***************************************************************************)
\* C13: frames are handled one at a time and in stream order: input is only
\* consumed in the three reading stages and never backwards; while a frame is
\* with the engine or being written, exactly the bytes up to that frame's
\* newline have been consumed; a line is only ever added at the end of what
\* was written before, and what the parent has received only grows at its
\* end; iterations start at increasing stream positions.
C13_OneFrameAtATimeInOrder ==
    /\ [][pos' # pos => (pc \in {"readline", "readpcm", "readnl"} /\ pos' > pos)]_vars
    /\ [](pc \in {"decode", "gate", "transcribe", "output", "flush"} =>
             /\ pos = iterStart + Len(length_line) + Len(pcm_bytes) + 1
             /\ SubSeq(input, iterStart + 1, pos) = length_line \o pcm_bytes \o <<NL>>)
    /\ [][Written' # Written =>
             (pc = "output" /\ SubSeq(Written', 1, Len(Written)) = Written)]_vars
    /\ [][stdout' # stdout =>
             (Len(stdout') > Len(stdout) /\ SubSeq(stdout', 1, Len(stdout)) = stdout)]_vars
    /\ [][iterStart' # iterStart => (pc = "readline" /\ iterStart' > iterStart)]_vars

\* two frames have each produced their line, the second after the first
C13_Witness ==
    /\ pc = "readline"
    /\ Len(calls) = 2
    /\ stdout = << <<104, 105>>, <<104, 105, 32, 121, 111>> >>

(***************************************************************************)
(* C14                                                                     *)
(***************************************************************************)
\* C14 (as claimed): every sample of the decoded waveform lies in
\* [-1.0, 1.0], that is, its signed 16-bit value s has |s| <= 32767.
C14_SamplesWithinUnitRange ==
    \A i \in 1..Len(audio) : Abs(audio[i]) <= PCM_SCALE

(***************************************************************************)
(* C15                                                                     *)
(***************************************************************************)
\* s is the two's-complement 16-bit value of the little-endian pair (lo, hi)
IsSigned16Of(s, lo, hi) ==
    /\ s \in -32768..32767
    /\ (s - (lo + 256 * hi)) % 65536 = 0

\* C15: the decode step yields floor(len/2) samples, sample i being the
\* two's-complement value of the little-endian byte pair (2i-1, 2i) of the
\* payload, in order; with an odd payload length the waveform is the one the
\* payload without its last byte gives.
C15_DecodeIsSignedLittleEndian ==
    /\ [][(pc = "decode" /\ NoInterrupt) =>
             /\ pc' = "gate"
             /\ Len(audio') = Len(pcm_bytes) \div 2
             /\ \A i \in 1..Len(audio') :
                    IsSigned16Of(audio'[i], pcm_bytes[2 * i - 1], pcm_bytes[2 * i])]_vars
    /\ []((pc = "gate" /\ Len(pcm_bytes) % 2 = 1) =>
             audio = DecodePCM16(SubSeq(pcm_bytes, 1, Len(pcm_bytes) - 1)))

\* a 3-byte payload has been decoded to its one sample 0x4000
C15_Witness ==
    /\ pc = "gate"
    /\ pcm_bytes = <<0, 64, 10>>
    /\ audio = <<16384>>

(***************************************************************************)
(* C16                                                                     *)
(***************************************************************************)
\* how far a position is from the end of the script, within one iteration
StepsLeft ==
    [p \in LoopPcs \cup {"kbhandler", "shutdown", "done", "crashed"} |->
        CASE p = "readpcm" -> 12 [] p = "readnl" -> 11 [] p = "decode" -> 10
          [] p = "gate" -> 9 [] p = "transcribe" -> 8 [] p = "output" -> 7
          [] p = "flush" -> 6 [] p = "handler" -> 5 [] p = "readline" -> 4
          [] p = "kbhandler" -> 3 [] p = "shutdown" -> 2 [] p = "done" -> 1
          [] OTHER -> 0]

\* unread bytes first, then the stage within the iteration
Remaining == 16 * (Len(input) - pos) + StepsLeft[pc]

\* C16: the read position never moves backwards; an iteration that does not
\* leave the loop at its length-line read has consumed at least one byte
\* there; at end of input the length-line read leaves the loop; every step
\* brings the worker closer to the end (unread bytes, then stage of the
\* iteration); and every run of the worker that is not interrupted reaches
\* the shutdown state.
C16_WorkerReachesShutdown ==
    /\ [][pos' >= pos /\ pos' <= Len(input)]_vars
    /\ [][Remaining' < Remaining /\ Remaining' >= 0]_vars
    /\ [][(pc = "readline" /\ pc' \in LoopPcs) => pos' > pos]_vars
    /\ [][(pc = "readline" /\ pos = Len(input) /\ NoInterrupt) => pc' = "shutdown"]_vars
    /\ <>(pc = "done" \/ pc \in {"kbhandler", "crashed"})

\* an uninterrupted run over a stream with an exception in it has shut down
C16_Witness ==
    /\ pc = "done"
    /\ pos = Len(input)
    /\ Len(sent) >= 2
    /\ Count("Error", stderr) >= 1
    /\ Count("Interrupt", stderr) = 0
    /\ Last(stderr) = "Shutdown"

(***************************************************************************)
(* C17                                                                     *)
(***************************************************************************)
\* offset in the input at which the j-th piece sent begins
RECURSIVE PieceStart(_)
PieceStart(j) == IF j <= 1 THEN 0 ELSE PieceStart(j - 1) + Len(sent[j - 1])

\* the piece is a frame as the protocol defines it: decimal length line,
\* that many payload bytes, newline
WellFormedPiece(piece) ==
    \E n \in 0..Len(piece) :
        /\ Len(piece) = Len(Header(n)) + n + 1
        /\ SubSeq(piece, 1, Len(Header(n))) = Header(n)
        /\ Last(piece) = NL

\* number of payload bytes the sender put into a piece (0: the piece carries
\* no payload), and where they begin
SenderPayloadLen(piece) ==
    IF WellFormedPiece(piece)
    THEN Len(piece) - LineEnd(piece, 0) - 1
    ELSE IF piece = BadHeaderFrame THEN 4
    ELSE IF piece \in {<<52, NL, 0, 64>>, <<50, NL, 0, 64, 120>>, <<50, NL, 0, 64>>}
    THEN 2
    ELSE 0

SenderPayloadStart(j) == PieceStart(j) + LineEnd(sent[j], 0)

\* the bytes in pcm_bytes are exactly the payload of the j-th piece sent
ReadPayloadOfPiece(j) ==
    /\ SenderPayloadLen(sent[j]) > 0
    /\ Len(pcm_bytes) = SenderPayloadLen(sent[j])
    /\ pos - 1 - Len(pcm_bytes) = SenderPayloadStart(j)

\* C17 (as claimed): whatever was sent before, a waveform passed to the
\* engine is decoded from exactly the payload bytes of one frame as the
\* sender framed it.
C17_EngineGetsOneSentPayload ==
    pc = "transcribe" =>
        /\ audio = DecodePCM16(pcm_bytes)
        /\ \E j \in 1..Len(sent) : ReadPayloadOfPiece(j)

\* C17 (amended): a waveform passed to the engine is decoded from exactly
\* the data_length bytes that follow a length line the worker read and that
\* are followed by a newline; when the frame at which the iteration began
\* and every frame sent before it are well-formed, these bytes are exactly
\* that frame's payload as the sender framed it.
C17_EngineGetsWhatTheReaderFramed ==
    pc = "transcribe" =>
        /\ audio = DecodePCM16(pcm_bytes)
        /\ Len(pcm_bytes) = data_length
        /\ data_length >= 1
        /\ length_line = ReadLine(input, iterStart)
        /\ SubSeq(input, iterStart + 1, pos) = length_line \o pcm_bytes \o <<NL>>
        /\ \A j \in 1..Len(sent) :
               ( /\ \A k \in 1..j : WellFormedPiece(sent[k])
                 /\ iterStart >= PieceStart(j)
                 /\ iterStart < PieceStart(j + 1) )
               => (iterStart = PieceStart(j) /\ ReadPayloadOfPiece(j))

\* the second of two well-formed frames is about to be passed to the engine
C17_Witness ==
    /\ pc = "transcribe"
    /\ Len(sent) = 2
    /\ WellFormedPiece(sent[1])
    /\ WellFormedPiece(sent[2])
    /\ iterStart = PieceStart(2)
    /\ iterStart > 0

(***************************************************************************)
(* C18                                                                     *)
(***************************************************************************)
\* the iteration has parsed a length line declaring 0 bytes and is at the
\* payload read
ZeroLengthDeclared == pc = "readpcm" /\ data_length = 0

\* C18: a frame declaring length 0 takes the failed-read path: the iteration
\* ends at the payload read with a "Failed to read" diagnostic, nothing is
\* decoded, gated, passed to the engine or written to stdout, and the one
\* byte after the length line is consumed whatever it is (no byte when the
\* stream ends there), so that behind a newline delimiter the next frame is
\* read from its first byte and processed normally.
C18_ZeroLengthTakesFailedReadPath ==
    /\ [][(ZeroLengthDeclared /\ NoInterrupt) =>
            /\ pc' = "readline"
            /\ prev' = "failedread"
            /\ stderr' = Append(stderr, "FailedRead")
            /\ pcm_bytes' = <<>>
            /\ pos' = Min(pos + 1, Len(input))
            /\ FrameAt(iterStart, 0) => pos' = FrameEnd(iterStart, 0)
            /\ UNCHANGED <<audio, max_amp, calls, stdout, stdout_buf>>]_vars
      \* before the payload read the iteration has consumed the length line only
    /\ [][ZeroLengthDeclared' => pos' = LineEnd(input, iterStart')]_vars
    /\ [][ProcessedNormallyWhen(prev = "failedread")]_vars

\* a well-formed frame sent right behind a zero-length frame has reached the
\* gate, and nothing was decoded or written for the zero-length frame
C18_Witness ==
    /\ Len(sent) >= 2
    /\ sent[1] = Frame(<<>>)
    /\ iterStart = Len(sent[1])
    /\ GatedFrame(2)
    /\ prev = "failedread"
    /\ Count("FailedRead", stderr) = 1
    /\ calls = <<>>
    /\ Written = <<>>

\* the byte consumed behind a zero-length line was not a newline, and the
\* worker went on to the next length line
C18_StrayByteWitness ==
    /\ Len(sent) >= 1
    /\ sent[1] = ZeroThenStray
    /\ pc = "readline"
    /\ pos = Len(ZeroThenStray)
    /\ prev = "failedread"
    /\ Count("ExpectedNewline", stderr) = 0

(***************************************************************************)
(* C19                                                                     *)
(***************************************************************************)
\* engine calls whose segment list was consumed and found non-empty (line 99)
NonEmptyResults == Count("Detected", stderr)

\* frames read in full (length line, payload, newline) whose peak reached
\* the threshold (line 82)
NonSilentFramesRead == Count("Running", stderr)

\* the fewest bytes such a frame takes: a length line of a digit and a
\* newline, one sample, the delimiter
MinFrameBytes == Len(Frame(<<0, 0>>))

\* C19: the number of stdout lines is at most the number of engine calls
\* that returned a non-empty segment list, which is at most the number of
\* well-formed non-silent frames read, each of them read from bytes of its
\* own; and one loop iteration writes at most one stdout line.
C19_LinesBoundedByResultsAndFrames ==
    /\ [](/\ Len(Written) <= NonEmptyResults
          /\ NonEmptyResults <= Len(calls)
          /\ Len(calls) <= NonSilentFramesRead
          /\ NonSilentFramesRead * MinFrameBytes <= pos
          /\ NonSilentFramesRead <= Count("Received", stderr) - Count("TooQuiet", stderr)
          /\ Len(stdout_buf) <= 1)
      \* stdout grows by one line at a time, at line 101 only, and an
      \* iteration that gets there has written nothing before
    /\ [][Written' # Written =>
            /\ pc = "output"
            /\ stdout_buf = <<>>
            /\ Len(Written') = Len(Written) + 1
            /\ pc' = "flush"]_vars
      \* behind line 101 the iteration can only flush and start the next one
    /\ [][(pc = "flush" /\ NoInterrupt) =>
            (pc' = "readline" /\ Len(Written') = Len(Written))]_vars

\* two non-silent frames went to the engine, one result was empty, and one
\* line was written
C19_Witness ==
    /\ pc = "readline"
    /\ NonSilentFramesRead = 2
    /\ Len(calls) = 2
    /\ NonEmptyResults = 1
    /\ Count("NoSpeech", stderr) = 1
    /\ Len(Written) = 1

====
